---- MODULE Spec2Model ----
(***************************************************************************)
(* A model of the HyPhy native/WASM benchmark scripts:                     *)
(*   scripts/run_benchmark.py       the native runner                      *)
(*   scripts/run_wasm_benchmark.py  the sandboxed (Playwright) runner      *)
(*   scripts/aggregate_results.py   loader, aggregator and report writers  *)
(*                                                                         *)
(* Elapsed times and means are exact rationals [num, den]; Python's None   *)
(* is the record None.  The square-root statistics (stdDev, standardError, *)
(* cv) are not modelled: no property below reads them.                     *)
(***************************************************************************)
EXTENDS Integers, Sequences, FiniteSets, TLC

VARIABLES
    \* ---- the two runners ----
    runner,          \* "native" (run_benchmark.py) or "wasm" (run_wasm_benchmark.py)
    pc,              \* position of the running script
    iterations_arg,  \* args.iterations
    cpu_arg,         \* args.cpu (native only)
    browser_arg,     \* args.browser (wasm only)
    i,               \* the loop variable i
    iterations,      \* the list `iterations` / `results`
    running,         \* indices of the iterations whose subprocess / evaluate call is in flight
    attempts,        \* log of the iterations started: <<[index, instance]>>
    benchmarkReady,  \* window.benchmarkReady of the page
    instances,       \* number of pages (runtime instances) created so far
    stats,           \* the dict `stats`
    output,          \* the JSON file written: <<>> or <<result>>
    raised,          \* the exception / exit that ended the script, "" if none
    \* ---- aggregate_results.py: load_results ----
    input_dir_exists,  \* input_dir.exists()
    json_files,        \* input_dir.glob("*.json") in discovery order
    load_pc,           \* position in load_results
    load_i,            \* index of the file the for loop is at
    results,           \* the list `results`
    warnings,          \* the files a warning was printed for
    \* ---- aggregate_results.py: main, write_markdown, write_csv ----
    agg_pc,            \* position in main
    cli_results,       \* the native records, in discovery order
    wasm_results,      \* the sandboxed records, in discovery order
    md,                \* the markdown file written
    csv                \* the rows of the CSV file written

runVars == <<runner, pc, iterations_arg, cpu_arg, browser_arg, i, iterations, running,
             attempts, benchmarkReady, instances, stats, output, raised>>

loadVars == <<input_dir_exists, json_files, load_pc, load_i, results, warnings>>

aggVars == <<agg_pc, cli_results, wasm_results, md, csv>>

vars == <<runVars, loadVars, aggVars>>

-----------------------------------------------------------------------------
(* Bounds and input domains *)

MaxIterations == 3

MaxFiles == 3

MaxRecords == 3

ElapsedMs == {100, 105, 110}

ExitCodes == {0, 1}

CpuArgs == {0, 1}

BrowserArgs == {"chromium", "firefox", "webkit", "lynx"}

-----------------------------------------------------------------------------
(* Values *)

None == [none |-> TRUE]

IsNone(x) == "none" \in DOMAIN x

Rat(a, b) == [num |-> a, den |-> b]

RatEq(x, y) == x.num * y.den = y.num * x.den

\* a JSON scalar keeps its type: the integer 0 and the string "0" are different values
JsonInt(repr) == [type |-> "int", repr |-> repr]

JsonStr(repr) == [type |-> "str", repr |-> repr]

DigitChar(d) ==
    CASE d = 0 -> "0" [] d = 1 -> "1" [] d = 2 -> "2" [] d = 3 -> "3" [] d = 4 -> "4"
      [] d = 5 -> "5" [] d = 6 -> "6" [] d = 7 -> "7" [] d = 8 -> "8" [] d = 9 -> "9"

\* the decimal digits of a natural number
RECURSIVE Digits(_)
Digits(n) == IF n < 10 THEN DigitChar(n) ELSE Digits(n \div 10) \o DigitChar(n % 10)

-----------------------------------------------------------------------------
(* The statistics block shared by both runners *)

\* mutant: the failed iterations' times are kept
RECURSIVE SuccessfulTimes_all(_)
SuccessfulTimes_all(its) ==
    IF its = <<>> THEN <<>>
    ELSE <<Head(its).runtimeMs>> \o SuccessfulTimes_all(Tail(its))

RECURSIVE SuccessfulTimes(_)
SuccessfulTimes(its) ==
    IF its = <<>> THEN <<>>
    ELSE IF Head(its).success
         THEN <<Head(its).runtimeMs>> \o SuccessfulTimes(Tail(its))
         ELSE SuccessfulTimes(Tail(its))

RECURSIVE Sum(_)
Sum(s) == IF s = <<>> THEN 0 ELSE Head(s) + Sum(Tail(s))

RECURSIVE MinOf(_)
MinOf(s) ==
    IF Len(s) = 1 THEN Head(s)
    ELSE LET m == MinOf(Tail(s)) IN IF Head(s) <= m THEN Head(s) ELSE m

RECURSIVE MaxOf(_)
MaxOf(s) ==
    IF Len(s) = 1 THEN Head(s)
    ELSE LET m == MaxOf(Tail(s)) IN IF Head(s) >= m THEN Head(s) ELSE m

\* insertion of x into an ascending sequence
RECURSIVE Insert(_, _)
Insert(x, s) ==
    IF s = <<>> THEN <<x>>
    ELSE IF x <= Head(s) THEN <<x>> \o s
         ELSE <<Head(s)>> \o Insert(x, Tail(s))

RECURSIVE Sorted(_)
Sorted(s) == IF s = <<>> THEN <<>> ELSE Insert(Head(s), Sorted(Tail(s)))

\* statistics.mean
Mean(s) == Rat(Sum(s), Len(s))

\* statistics.median: the middle value, or the mean of the two middle values
Median(s) ==
    LET d == Sorted(s)
        n == Len(s)
    IN  IF n % 2 = 1 THEN Rat(d[(n + 1) \div 2], 1)
        ELSE Rat(d[n \div 2] + d[n \div 2 + 1], 2)

\* mutant: a run without successes reports a mean of 0
Statistics_zero(its) ==
    LET successful_times == SuccessfulTimes(its)
    IN  IF successful_times # <<>>
        THEN [n      |-> Len(successful_times),
              mean   |-> Mean(successful_times),
              min    |-> MinOf(successful_times),
              max    |-> MaxOf(successful_times),
              median |-> Median(successful_times)]
        ELSE [n |-> 0, mean |-> Rat(0, 1)]

Statistics(its) ==
    LET successful_times == SuccessfulTimes(its)
    IN  IF successful_times # <<>>
        THEN [n      |-> Len(successful_times),
              mean   |-> Mean(successful_times),
              min    |-> MinOf(successful_times),
              max    |-> MaxOf(successful_times),
              median |-> Median(successful_times)]
        ELSE [n |-> 0, mean |-> None, error |-> "All iterations failed"]

NoStats == [pending |-> TRUE]

NoMarkdown == [pending |-> TRUE]

-----------------------------------------------------------------------------
(* run_benchmark.py: main *)

NativeValidate ==
    /\ runner = "native" /\ pc = "start"
    /\ \E exists \in BOOLEAN :
         IF exists THEN pc' = "loop" /\ raised' = raised
                   ELSE pc' = "exited" /\ raised' = "SystemExit"
    /\ UNCHANGED <<runner, iterations_arg, cpu_arg, browser_arg, i, iterations, running,
                   attempts, benchmarkReady, instances, stats, output>>
    /\ UNCHANGED <<loadVars, aggVars>>

\* the loop head and the call of run_hyphy: subprocess.run blocks until the child ends
NativeIterStart ==
    /\ runner = "native" /\ pc = "loop" /\ i <= iterations_arg
    /\ running' = running \cup {i}
    /\ attempts' = Append(attempts, [index |-> i, instance |-> 0])
    /\ pc' = "run_hyphy"
    /\ UNCHANGED <<runner, iterations_arg, cpu_arg, browser_arg, i, iterations,
                   benchmarkReady, instances, stats, output, raised>>
    /\ UNCHANGED <<loadVars, aggVars>>

\* mutant: a non-zero exit code leaves the loop
NativeIterEnd_break ==
    /\ runner = "native" /\ pc = "run_hyphy"
    /\ \E runtime_ms \in ElapsedMs, exit_code \in ExitCodes :
         /\ iterations' = Append(iterations,
                                 [iteration |-> i, runtimeMs |-> runtime_ms,
                                  success |-> (exit_code = 0)])
         /\ i' = IF exit_code = 0 THEN i + 1 ELSE iterations_arg + 1
    /\ running' = running \ {i}
    /\ pc' = "loop"
    /\ UNCHANGED <<runner, iterations_arg, cpu_arg, browser_arg, attempts,
                   benchmarkReady, instances, stats, output, raised>>
    /\ UNCHANGED <<loadVars, aggVars>>

\* run_hyphy returns (runtime_ms, exit_code); the iteration is appended.  (A
\* child that cannot be started at all makes subprocess.run raise; that is not
\* an iteration outcome and is not modelled.)
NativeIterEnd ==
    /\ runner = "native" /\ pc = "run_hyphy"
    /\ \E runtime_ms \in ElapsedMs, exit_code \in ExitCodes :
         iterations' = Append(iterations,
                              [iteration |-> i, runtimeMs |-> runtime_ms,
                               success |-> (exit_code = 0)])
    /\ running' = running \ {i}
    /\ i' = i + 1
    /\ pc' = "loop"
    /\ UNCHANGED <<runner, iterations_arg, cpu_arg, browser_arg, attempts,
                   benchmarkReady, instances, stats, output, raised>>
    /\ UNCHANGED <<loadVars, aggVars>>

NativeStatistics ==
    /\ runner = "native" /\ pc = "loop" /\ i > iterations_arg
    /\ stats' = Statistics(iterations)
    /\ pc' = "write"
    /\ UNCHANGED <<runner, iterations_arg, cpu_arg, browser_arg, i, iterations, running,
                   attempts, benchmarkReady, instances, output, raised>>
    /\ UNCHANGED <<loadVars, aggVars>>

NativeCpuField(cpu) == IF cpu > 0 THEN JsonInt(Digits(cpu)) ELSE JsonStr("all")

NativeWrite ==
    /\ runner = "native" /\ pc = "write"
    /\ output' = <<[platform |-> "cli", axis |-> NativeCpuField(cpu_arg),
                    iterations |-> iterations, statistics |-> stats]>>
    /\ pc' = "done"
    /\ UNCHANGED <<runner, iterations_arg, cpu_arg, browser_arg, i, iterations, running,
                   attempts, benchmarkReady, instances, stats, raised>>
    /\ UNCHANGED <<loadVars, aggVars>>

-----------------------------------------------------------------------------
(* run_wasm_benchmark.py: main and run_wasm_benchmark *)

WasmValidate ==
    /\ runner = "wasm" /\ pc = "start"
    /\ \E exists \in BOOLEAN :
         IF exists THEN pc' = "launch" /\ raised' = raised
                   ELSE pc' = "exited" /\ raised' = "SystemExit"
    /\ UNCHANGED <<runner, iterations_arg, cpu_arg, browser_arg, i, iterations, running,
                   attempts, benchmarkReady, instances, stats, output>>
    /\ UNCHANGED <<loadVars, aggVars>>

KnownBrowsers == {"chromium", "firefox", "webkit"}

\* launch the browser, open one page and give it BENCHMARK_HTML, whose script
\* starts with window.benchmarkReady = false and calls initHyPhy()
WasmLaunch ==
    /\ runner = "wasm" /\ pc = "launch"
    /\ IF browser_arg \in KnownBrowsers
       THEN /\ instances' = instances + 1
            /\ benchmarkReady' = FALSE
            /\ pc' = "wait_ready"
            /\ raised' = raised
       ELSE /\ pc' = "crashed"
            /\ raised' = "ValueError"
            /\ UNCHANGED <<instances, benchmarkReady>>
    /\ UNCHANGED <<loadVars, aggVars>>
    /\ UNCHANGED <<runner, iterations_arg, cpu_arg, browser_arg, i, iterations, running,
                   attempts, stats, output>>
    /\ UNCHANGED <<loadVars, aggVars>>

\* initHyPhy() of the page completes: window.benchmarkReady = true
InitHyPhy ==
    /\ runner = "wasm" /\ instances > 0 /\ ~benchmarkReady
    /\ pc = "wait_ready"
    /\ benchmarkReady' = TRUE
    /\ UNCHANGED <<runner, pc, iterations_arg, cpu_arg, browser_arg, i, iterations, running,
                   attempts, instances, stats, output, raised>>
    /\ UNCHANGED <<loadVars, aggVars>>

\* page.wait_for_function returns once window.benchmarkReady === true
WaitReady ==
    /\ runner = "wasm" /\ pc = "wait_ready" /\ benchmarkReady
    /\ pc' = "loop"
    /\ UNCHANGED <<runner, iterations_arg, cpu_arg, browser_arg, i, iterations, running,
                   attempts, benchmarkReady, instances, stats, output, raised>>
    /\ UNCHANGED <<loadVars, aggVars>>

\* mutant: the timeout is swallowed and the loop starts anyway
WaitTimeout_continue ==
    /\ runner = "wasm" /\ pc = "wait_ready" /\ ~benchmarkReady
    /\ pc' = "loop"
    /\ UNCHANGED <<runner, iterations_arg, cpu_arg, browser_arg, i, iterations, running,
                   attempts, benchmarkReady, instances, stats, output, raised>>
    /\ UNCHANGED <<loadVars, aggVars>>

\* the 120000 ms pass first: wait_for_function raises TimeoutError, which nothing
\* catches; it leaves run_wasm_benchmark, asyncio.run and main
WaitTimeout ==
    /\ runner = "wasm" /\ pc = "wait_ready" /\ ~benchmarkReady
    /\ pc' = "crashed"
    /\ raised' = "TimeoutError"
    /\ UNCHANGED <<runner, iterations_arg, cpu_arg, browser_arg, i, iterations, running,
                   attempts, benchmarkReady, instances, stats, output>>
    /\ UNCHANGED <<loadVars, aggVars>>

\* the loop head and the call of page.evaluate on the one page
WasmIterStart ==
    /\ runner = "wasm" /\ pc = "loop" /\ i <= iterations_arg
    /\ running' = running \cup {i}
    /\ attempts' = Append(attempts, [index |-> i, instance |-> instances])
    /\ pc' = "evaluate"
    /\ UNCHANGED <<runner, iterations_arg, cpu_arg, browser_arg, i, iterations,
                   benchmarkReady, instances, stats, output, raised>>
    /\ UNCHANGED <<loadVars, aggVars>>

\* runBenchmark resolved: the try branch
WasmIterOk ==
    /\ runner = "wasm" /\ pc = "evaluate"
    /\ \E runtime_ms \in ElapsedMs :
         iterations' = Append(iterations,
                              [iteration |-> i, runtimeMs |-> runtime_ms, success |-> TRUE])
    /\ running' = running \ {i}
    /\ i' = i + 1
    /\ pc' = "loop"
    /\ UNCHANGED <<runner, iterations_arg, cpu_arg, browser_arg, attempts,
                   benchmarkReady, instances, stats, output, raised>>
    /\ UNCHANGED <<loadVars, aggVars>>

\* page.evaluate raised: the except branch records runtimeMs 0
WasmIterFail ==
    /\ runner = "wasm" /\ pc = "evaluate"
    /\ iterations' = Append(iterations,
                            [iteration |-> i, runtimeMs |-> 0, success |-> FALSE])
    /\ running' = running \ {i}
    /\ i' = i + 1
    /\ pc' = "loop"
    /\ UNCHANGED <<runner, iterations_arg, cpu_arg, browser_arg, attempts,
                   benchmarkReady, instances, stats, output, raised>>
    /\ UNCHANGED <<loadVars, aggVars>>

\* browser.close(), return results; main computes the statistics
WasmStatistics ==
    /\ runner = "wasm" /\ pc = "loop" /\ i > iterations_arg
    /\ stats' = Statistics(iterations)
    /\ pc' = "write"
    /\ UNCHANGED <<runner, iterations_arg, cpu_arg, browser_arg, i, iterations, running,
                   attempts, benchmarkReady, instances, output, raised>>
    /\ UNCHANGED <<loadVars, aggVars>>

WasmWrite ==
    /\ runner = "wasm" /\ pc = "write"
    /\ output' = <<[platform |-> "wasm", axis |-> JsonStr(browser_arg),
                    iterations |-> iterations, statistics |-> stats]>>
    /\ pc' = "done"
    /\ UNCHANGED <<runner, iterations_arg, cpu_arg, browser_arg, i, iterations, running,
                   attempts, benchmarkReady, instances, stats, raised>>
    /\ UNCHANGED <<loadVars, aggVars>>

-----------------------------------------------------------------------------
(* aggregate_results.py: load_results *)

\* a file of the directory: json.load either returns its content or raises
FileContents == {"recordA", "recordB"}

Files == [parses : BOOLEAN, content : FileContents]

\* if input_dir.exists(): ... else the empty list is returned
LoadStart ==
    /\ load_pc = "start"
    /\ results' = <<>>
    /\ IF input_dir_exists
       THEN load_pc' = "loop" /\ load_i' = 1
       ELSE load_pc' = "returned" /\ load_i' = load_i
    /\ UNCHANGED <<input_dir_exists, json_files, warnings>>
    /\ UNCHANGED <<runVars, aggVars>>

\* the try branch: results.append(json.load(f))
LoadParse ==
    /\ load_pc = "loop" /\ load_i <= Len(json_files)
    /\ json_files[load_i].parses
    /\ results' = Append(results, json_files[load_i].content)
    /\ load_i' = load_i + 1
    /\ UNCHANGED <<input_dir_exists, json_files, load_pc, warnings>>
    /\ UNCHANGED <<runVars, aggVars>>

\* mutant: the exception of json.load is not caught
LoadWarn_raise ==
    /\ load_pc = "loop" /\ load_i <= Len(json_files)
    /\ ~json_files[load_i].parses
    /\ load_pc' = "raised"
    /\ UNCHANGED <<input_dir_exists, json_files, load_i, results, warnings>>
    /\ UNCHANGED <<runVars, aggVars>>

\* the except branch: print the warning, go on with the next file
LoadWarn ==
    /\ load_pc = "loop" /\ load_i <= Len(json_files)
    /\ ~json_files[load_i].parses
    /\ warnings' = Append(warnings, load_i)
    /\ load_i' = load_i + 1
    /\ UNCHANGED <<input_dir_exists, json_files, load_pc, results>>
    /\ UNCHANGED <<runVars, aggVars>>

LoadReturn ==
    /\ load_pc = "loop" /\ load_i > Len(json_files)
    /\ load_pc' = "returned"
    /\ UNCHANGED <<input_dir_exists, json_files, load_i, results, warnings>>
    /\ UNCHANGED <<runVars, aggVars>>

-----------------------------------------------------------------------------
(* aggregate_results.py: values and formatting *)

\* the truth value of a mean in `if mean:` -- None and 0 are both false
Truthy(x) == ~IsNone(x) /\ x.num # 0

\* x or y
Or(x, y) == IF Truthy(x) THEN x ELSE y

\* str(cpu): the integer 0 and the string "0" both give "0"
Str(v) == v.repr

Abs(n) == IF n < 0 THEN -n ELSE n

\* |n/d| rounded to an integer, ties to even, as the format code .0f rounds
RoundHalfEven(n, d) ==
    LET q == n \div d
        r == n % d
    IN  IF 2 * r < d THEN q
        ELSE IF 2 * r > d THEN q + 1
        ELSE IF q % 2 = 0 THEN q ELSE q + 1

\* f"{x:.0f}" of a rational with a positive denominator
Fmt0(x) ==
    (IF x.num < 0 THEN "-" ELSE "") \o Digits(RoundHalfEven(Abs(x.num), x.den))

\* f"{x:+.0f}"
FmtSigned0(x) ==
    (IF x.num < 0 THEN "-" ELSE "+") \o Digits(RoundHalfEven(Abs(x.num), x.den))

RatLess(x, y) == x.num * y.den < y.num * x.den

RatAdd(x, y) == Rat(x.num * y.den + y.num * x.den, x.den * y.den)

\* ((wasm - cpu1) / cpu1) * 100
Overhead(cpu1, wasm) ==
    Rat((wasm.num * cpu1.den - cpu1.num * wasm.den) * 100, wasm.den * cpu1.num)

\* mutant: the sign is left to the number, positive values get none
OverheadStr_unsigned(overhead) == Fmt0(overhead) \o "%"

OverheadStr(overhead) ==
    IF overhead.num > 0 THEN "+" \o Fmt0(overhead) \o "%" ELSE Fmt0(overhead) \o "%"

MeanStr(x) == IF Truthy(x) THEN Fmt0(x) \o "ms" ELSE "-"

-----------------------------------------------------------------------------
(* aggregate_results.py: write_markdown *)

\* every dataset and method name of the model, in the order sorted() gives
NameOrder == <<"bglobin", "fel", "lysin", "meme">>

\* sorted(set(...)) of the names in S
SortedNames(S) == LET in(x) == x \in S IN SelectSeq(NameOrder, in)

Datasets(all) == SortedNames({all[k].dataset : k \in 1..Len(all)})

Methods(all) == SortedNames({all[k].method : k \in 1..Len(all)})

EmptyLookup == [key \in {} |-> None]

Put(lookup, key, value) ==
    [k \in DOMAIN lookup \cup {key} |-> IF k = key THEN value ELSE lookup[k]]

\* dict.get(key)
Get(lookup, key) == IF key \in DOMAIN lookup THEN lookup[key] ELSE None

\* cli_lookup: a later record of the same key replaces the earlier one; a
\* record whose mean is None or 0 is not entered
RECURSIVE CliLookup(_)
CliLookup(rs) ==
    IF rs = <<>> THEN EmptyLookup
    ELSE LET n == Len(rs)
             r == rs[n]
             prev == CliLookup(SubSeq(rs, 1, n - 1))
         IN  IF Truthy(r.mean)
             THEN Put(prev, <<r.dataset, r.method, Str(r.cpu)>>, r.mean)
             ELSE prev

RECURSIVE WasmLookup(_)
WasmLookup(rs) ==
    IF rs = <<>> THEN EmptyLookup
    ELSE LET n == Len(rs)
             r == rs[n]
             prev == WasmLookup(SubSeq(rs, 1, n - 1))
         IN  IF Truthy(r.mean)
             THEN Put(prev, <<r.dataset, r.method, r.browser>>, r.mean)
             ELSE prev

\* the Seq x Sites label: taken from the first record of the dataset
SeqSites(ds, all) ==
    LET hits == {k \in 1..Len(all) : all[k].dataset = ds}
    IN  IF hits = {} THEN ""
        ELSE LET k == CHOOSE h \in hits : \A g \in hits : h <= g
             IN  Digits(all[k].sequences) \o "x" \o Digits(all[k].sites)

\* one table row
Row(ds, method, cli, wasm) ==
    LET cli_lookup == CliLookup(cli)
        wasm_lookup == WasmLookup(wasm)
        cpu1 == Get(cli_lookup, <<ds, method, "1">>)
        cpu_all == Or(Get(cli_lookup, <<ds, method, "0">>),
                      Get(cli_lookup, <<ds, method, "all">>))
        wasm_mean == Get(wasm_lookup, <<ds, method, "chromium">>)
        overhead == IF Truthy(cpu1) /\ Truthy(wasm_mean)
                    THEN Overhead(cpu1, wasm_mean) ELSE None
    IN  [method       |-> method,
         dataset      |-> ds,
         seq_sites    |-> SeqSites(ds, cli \o wasm),
         cpu1_str     |-> MeanStr(cpu1),
         cpu_all_str  |-> MeanStr(cpu_all),
         wasm_str     |-> MeanStr(wasm_mean),
         overhead     |-> overhead,
         overhead_str |-> IF IsNone(overhead) THEN "-" ELSE OverheadStr(overhead)]

\* the rows of all tables: for method in methods, for ds in datasets
Rows(cli, wasm) ==
    LET datasets == Datasets(cli \o wasm)
        methods == Methods(cli \o wasm)
        nd == Len(datasets)
    IN  [k \in 1..(Len(methods) * nd) |->
            Row(datasets[((k - 1) % nd) + 1], methods[((k - 1) \div nd) + 1], cli, wasm)]

\* the list `overheads` of the summary: one entry per key of wasm_lookup whose
\* (dataset, method) has a CPU=1 mean, whatever the browser of the key
RECURSIVE OverheadsOf(_, _, _)
OverheadsOf(keys, cli_lookup, wasm_lookup) ==
    IF keys = {} THEN <<>>
    ELSE LET key == CHOOSE k \in keys : TRUE
             cpu1_time == Get(cli_lookup, <<key[1], key[2], "1">>)
             wasm_time == wasm_lookup[key]
             rest == OverheadsOf(keys \ {key}, cli_lookup, wasm_lookup)
         IN  IF Truthy(cpu1_time) /\ Truthy(wasm_time)
             THEN <<Overhead(cpu1_time, wasm_time)>> \o rest
             ELSE rest

RECURSIVE RatSum(_)
RatSum(s) == IF s = <<>> THEN Rat(0, 1) ELSE RatAdd(Head(s), RatSum(Tail(s)))

RECURSIVE RatMin(_)
RatMin(s) ==
    IF Len(s) = 1 THEN Head(s)
    ELSE LET m == RatMin(Tail(s)) IN IF RatLess(m, Head(s)) THEN m ELSE Head(s)

RECURSIVE RatMax(_)
RatMax(s) ==
    IF Len(s) = 1 THEN Head(s)
    ELSE LET m == RatMax(Tail(s)) IN IF RatLess(Head(s), m) THEN m ELSE Head(s)

SummaryLine(label, value) ==
    [label |-> label, value |-> value, text |-> FmtSigned0(value) \o "%"]

\* the lines under "## Summary"
Summary(cli, wasm) ==
    LET cli_lookup == CliLookup(cli)
        wasm_lookup == WasmLookup(wasm)
        overheads == OverheadsOf(DOMAIN wasm_lookup, cli_lookup, wasm_lookup)
    IN  IF DOMAIN wasm_lookup # {} /\ DOMAIN cli_lookup # {} /\ overheads # <<>>
        THEN LET total == RatSum(overheads)
                 avg_overhead == Rat(total.num, total.den * Len(overheads))
             IN  <<SummaryLine("Average WASM overhead vs single-threaded", avg_overhead),
                   SummaryLine("Min overhead", RatMin(overheads)),
                   SummaryLine("Max overhead", RatMax(overheads))>>
        ELSE <<>>

\* the file write_markdown writes (without the timestamp)
Markdown(cli, wasm) ==
    [cli_count       |-> Len(cli),
     wasm_count      |-> Len(wasm),
     sections        |-> Methods(cli \o wasm),
     rows            |-> Rows(cli, wasm),
     summary_heading |-> TRUE,
     summary         |-> Summary(cli, wasm)]

-----------------------------------------------------------------------------
(* aggregate_results.py: write_csv *)

CsvRow(platform, r, axis) ==
    [platform |-> platform, dataset |-> r.dataset, method |-> r.method,
     cpu_or_browser |-> Str(axis), sequences |-> r.sequences, sites |-> r.sites,
     mean_ms |-> r.mean]

\* one row per record: the native records in their order, then the sandboxed;
\* csv.writer writes str() of the axis value
Csv(cli, wasm) ==
    [k \in 1..Len(cli) |-> CsvRow("cli", cli[k], cli[k].cpu)]
      \o [k \in 1..Len(wasm) |-> CsvRow("wasm", wasm[k], JsonStr(wasm[k].browser))]

-----------------------------------------------------------------------------
(* aggregate_results.py: main *)

\* load_results(cli_dir) appends one more record that parses
LoadCli(records) ==
    /\ agg_pc = "load_cli"
    /\ Len(cli_results) + Len(wasm_results) < MaxRecords
    /\ \E r \in records : cli_results' = Append(cli_results, r)
    /\ UNCHANGED <<agg_pc, wasm_results, md, csv>>
    /\ UNCHANGED <<runVars, loadVars>>

\* load_results(cli_dir) returns
LoadCliDone ==
    /\ agg_pc = "load_cli"
    /\ agg_pc' = "load_wasm"
    /\ UNCHANGED <<cli_results, wasm_results, md, csv>>
    /\ UNCHANGED <<runVars, loadVars>>

\* load_results(wasm_dir) appends one more record that parses
LoadWasm(records) ==
    /\ agg_pc = "load_wasm"
    /\ Len(cli_results) + Len(wasm_results) < MaxRecords
    /\ \E r \in records : wasm_results' = Append(wasm_results, r)
    /\ UNCHANGED <<agg_pc, cli_results, md, csv>>
    /\ UNCHANGED <<runVars, loadVars>>

\* load_results(wasm_dir) returns; write_markdown(cli_results, wasm_results, ...)
WriteMarkdown ==
    /\ agg_pc = "load_wasm"
    /\ md' = Markdown(cli_results, wasm_results)
    /\ agg_pc' = "write_csv"
    /\ UNCHANGED <<cli_results, wasm_results, csv>>
    /\ UNCHANGED <<runVars, loadVars>>

\* write_csv(cli_results, wasm_results, ...)
WriteCsv ==
    /\ agg_pc = "write_csv"
    /\ csv' = Csv(cli_results, wasm_results)
    /\ agg_pc' = "done"
    /\ UNCHANGED <<cli_results, wasm_results, md>>
    /\ UNCHANGED <<runVars, loadVars>>

-----------------------------------------------------------------------------
(* Specifications *)

\* the variables of the scripts that are not running
IdleRun ==
    /\ runner = "none" /\ pc = "idle" /\ iterations_arg = 0 /\ cpu_arg = 0
    /\ browser_arg = "" /\ i = 0 /\ iterations = <<>> /\ running = {}
    /\ attempts = <<>> /\ benchmarkReady = FALSE /\ instances = 0
    /\ stats = NoStats /\ output = <<>> /\ raised = ""

IdleLoad ==
    /\ input_dir_exists = FALSE /\ json_files = <<>> /\ load_pc = "idle"
    /\ load_i = 0 /\ results = <<>> /\ warnings = <<>>

IdleAgg ==
    /\ agg_pc = "idle" /\ cli_results = <<>> /\ wasm_results = <<>>
    /\ md = NoMarkdown /\ csv = <<>>

InitRun ==
    /\ runner \in {"native", "wasm"}
    /\ pc = "start"
    /\ iterations_arg \in 0..MaxIterations
    /\ cpu_arg \in (IF runner = "native" THEN CpuArgs ELSE {0})
    /\ browser_arg \in (IF runner = "wasm" THEN BrowserArgs ELSE {""})
    /\ i = 1
    /\ iterations = <<>>
    /\ running = {}
    /\ attempts = <<>>
    /\ benchmarkReady = FALSE
    /\ instances = 0
    /\ stats = NoStats
    /\ output = <<>>
    /\ raised = ""
    /\ IdleLoad
    /\ IdleAgg

NextRun ==
    \/ NativeValidate
    \/ NativeIterStart
    \/ NativeIterEnd
    \/ NativeStatistics
    \/ NativeWrite
    \/ WasmValidate
    \/ WasmLaunch
    \/ InitHyPhy
    \/ WaitReady
    \/ WaitTimeout
    \/ WasmIterStart
    \/ WasmIterOk
    \/ WasmIterFail
    \/ WasmStatistics
    \/ WasmWrite

SpecRun == InitRun /\ [][NextRun]_vars

RECURSIVE SeqsUpTo(_, _)
SeqsUpTo(S, n) ==
    IF n = 0 THEN {<<>>}
    ELSE LET shorter == SeqsUpTo(S, n - 1)
         IN  shorter \cup {Append(q, x) : q \in {t \in shorter : Len(t) = n - 1}, x \in S}

InitLoad ==
    /\ IdleRun
    /\ IdleAgg
    /\ input_dir_exists \in BOOLEAN
    /\ json_files \in (IF input_dir_exists THEN SeqsUpTo(Files, MaxFiles) ELSE {<<>>})
    /\ load_pc = "start"
    /\ load_i = 0
    /\ results = <<>>
    /\ warnings = <<>>

NextLoad ==
    \/ LoadStart
    \/ LoadParse
    \/ LoadWarn
    \/ LoadReturn

SpecLoad == InitLoad /\ [][NextLoad]_vars

-----------------------------------------------------------------------------
(* The aggregator on records of two datasets: baseline, zero and missing means *)

ProblemSize == [sequences : {10}, sites : {300}]

CliRecord(ds, m, cpu, mean, size) ==
    [dataset |-> ds, method |-> m, cpu |-> cpu, mean |-> mean,
     sequences |-> size.sequences, sites |-> size.sites]

WasmRecord(ds, m, browser, mean, size) ==
    [dataset |-> ds, method |-> m, browser |-> browser, mean |-> mean,
     sequences |-> size.sequences, sites |-> size.sites]

CliRecords ==
    {CliRecord(ds, "fel", cpu, mean, size) :
        ds \in {"bglobin", "lysin"},
        cpu \in {JsonInt("1"), JsonStr("all")},
        mean \in {None, Rat(0, 1), Rat(100, 1)},
        size \in ProblemSize}

WasmRecords ==
    {WasmRecord(ds, "fel", browser, mean, size) :
        ds \in {"bglobin", "lysin"},
        browser \in {"chromium", "firefox"},
        mean \in {None, Rat(0, 1), Rat(80, 1), Rat(130, 1), Rat(150, 1)},
        size \in ProblemSize}

InitAgg ==
    /\ IdleRun
    /\ IdleLoad
    /\ agg_pc = "load_cli"
    /\ cli_results = <<>>
    /\ wasm_results = <<>>
    /\ md = NoMarkdown
    /\ csv = <<>>

NextAgg ==
    \/ LoadCli(CliRecords)
    \/ LoadCliDone
    \/ LoadWasm(WasmRecords)
    \/ WriteMarkdown
    \/ WriteCsv

SpecAgg == InitAgg /\ [][NextAgg]_vars

-----------------------------------------------------------------------------
(* The aggregator on records of one dataset: repeated keys, the spellings of *)
(* the parallelism axis, differing problem sizes                             *)

ProblemSizes == [sequences : {10, 20}, sites : {300}]

CpuSpellings == {JsonInt("1"), JsonInt("0"), JsonStr("0"), JsonStr("all")}

CliRecordsRepeated ==
    {CliRecord("bglobin", "fel", cpu, mean, size) :
        cpu \in CpuSpellings,
        mean \in {Rat(100, 1), Rat(200, 1)},
        size \in ProblemSizes}

WasmRecordsRepeated ==
    {WasmRecord("bglobin", "fel", "chromium", Rat(150, 1), size) : size \in ProblemSizes}

NextRepeated ==
    \/ LoadCli(CliRecordsRepeated)
    \/ LoadCliDone
    \/ LoadWasm(WasmRecordsRepeated)
    \/ WriteMarkdown
    \/ WriteCsv

SpecRepeated == InitAgg /\ [][NextRepeated]_vars

-----------------------------------------------------------------------------
(* The aggregator on records of two datasets and two methods *)

CliRecordsPairs ==
    {CliRecord(ds, m, JsonInt("1"), mean, size) :
        ds \in {"bglobin", "lysin"},
        m \in {"fel", "meme"},
        mean \in {None, Rat(100, 1)},
        size \in ProblemSize}

WasmRecordsPairs ==
    {WasmRecord(ds, m, "chromium", Rat(150, 1), size) :
        ds \in {"bglobin", "lysin"},
        m \in {"fel", "meme"},
        size \in ProblemSize}

NextPairs ==
    \/ LoadCli(CliRecordsPairs)
    \/ LoadCliDone
    \/ LoadWasm(WasmRecordsPairs)
    \/ WriteMarkdown
    \/ WriteCsv

SpecPairs == InitAgg /\ [][NextPairs]_vars

-----------------------------------------------------------------------------
(* Properties of the aggregator *)

Written == agg_pc \in {"write_csv", "done"}

RowIdx == 1..Len(md.rows)

\* the indices of the records of rs with a recorded (not None) mean that match
Recorded(rs, Match(_)) == {k \in 1..Len(rs) : Match(rs[k]) /\ ~IsNone(rs[k].mean)}

\* the mean of the last record of rs that matches and has a mean that is not None or 0
LastMean(rs, Match(_)) ==
    LET hits == {k \in 1..Len(rs) : Match(rs[k]) /\ Truthy(rs[k].mean)}
    IN  IF hits = {} THEN None
        ELSE rs[CHOOSE h \in hits : \A g \in hits : g <= h].mean

BaselineOf(ds, m) ==
    LET Match(r) == r.dataset = ds /\ r.method = m /\ r.cpu \in {JsonInt("1"), JsonStr("1")}
    IN  LastMean(cli_results, Match)

SandboxedOf(ds, m) ==
    LET Match(r) == r.dataset = ds /\ r.method = m /\ r.browser = "chromium"
    IN  LastMean(wasm_results, Match)

\* C10: a defined overhead is rendered with a leading "+" exactly when it is
\* positive: 100 against 150 gives "+50%", 100 against 80 gives "-20%", and
\* bglobin/fel at parallelism 1 with 100 against chromium's 130 gives "+30%".
Thm_C10_PlusIffPositive ==
    Written =>
      \A j \in RowIdx :
        LET row == md.rows[j]
            base == BaselineOf(row.dataset, row.method)
            sand == SandboxedOf(row.dataset, row.method)
        IN  ~IsNone(row.overhead) =>
              /\ row.overhead.den > 0
              /\ (SubSeq(row.overhead_str, 1, 1) = "+") <=> (row.overhead.num > 0)
              /\ (base = Rat(100, 1) /\ sand = Rat(150, 1)) => row.overhead_str = "+50%"
              /\ (base = Rat(100, 1) /\ sand = Rat(80, 1)) => row.overhead_str = "-20%"
              /\ (base = Rat(100, 1) /\ sand = Rat(130, 1)
                    /\ row.dataset = "bglobin" /\ row.method = "fel")
                   => row.overhead_str = "+30%"

Wit_C10_PlusThirty ==
    /\ agg_pc = "done"
    /\ \E j \in RowIdx : md.rows[j].dataset = "bglobin" /\ md.rows[j].overhead_str = "+30%"
    /\ \E j \in RowIdx : md.rows[j].overhead_str = "-"
    /\ Len(cli_results) = 1 /\ Len(wasm_results) = 2

\* C4 (as claimed): in every row the overhead is defined exactly when the
\* native parallelism-1 mean and the chromium mean are both recorded and the
\* baseline is not 0, it is then (sandboxed - baseline) / baseline * 100, and
\* it is otherwise rendered "-".  Stated for the rows with at most one record
\* of each of the two kinds.
Cex_C4_OverheadIffBothPresent ==
    Written =>
      \A j \in RowIdx :
        LET row == md.rows[j]
            IsBase(r) == r.dataset = row.dataset /\ r.method = row.method
                           /\ Str(r.cpu) = "1"
            IsSand(r) == r.dataset = row.dataset /\ r.method = row.method
                           /\ r.browser = "chromium"
            B == Recorded(cli_results, IsBase)
            W == Recorded(wasm_results, IsSand)
        IN  (Cardinality(B) <= 1 /\ Cardinality(W) <= 1) =>
              LET defined == /\ B # {} /\ W # {}
                             /\ \A b \in B : cli_results[b].mean.num # 0
              IN  /\ defined <=> ~IsNone(row.overhead)
                  /\ defined =>
                       \A b \in B, w \in W :
                         LET bm == cli_results[b].mean
                             wm == wasm_results[w].mean
                         IN  row.overhead.num * (bm.num * wm.den)
                               = (wm.num * bm.den - bm.num * wm.den) * 100 * row.overhead.den
                  /\ ~defined => row.overhead_str = "-"

\* the defined overheads of the table rows, in row order
RowOverheads ==
    LET defined(row) == ~IsNone(row.overhead)
        kept == SelectSeq(md.rows, defined)
    IN  [k \in 1..Len(kept) |-> kept[k].overhead]

\* C5 (as claimed): the average, minimum and maximum of the summary are those
\* of the overheads defined in the table rows; a row whose overhead column
\* shows "-" adds nothing, and without such a value there are no statistics.
Cex_C5_SummaryOverRowOverheads ==
    Written =>
      IF RowOverheads = <<>>
      THEN md.summary = <<>>
      ELSE /\ Len(md.summary) = 3
           /\ LET total == RatSum(RowOverheads)
              IN  RatEq(md.summary[1].value,
                        Rat(total.num, total.den * Len(RowOverheads)))
           /\ RatEq(md.summary[2].value, RatMin(RowOverheads))
           /\ RatEq(md.summary[3].value, RatMax(RowOverheads))

\* C11 (as claimed): when no row has a defined overhead (two empty sets, only
\* native or only sandboxed records, ...) the markdown has no summary section
\* at all, neither the "## Summary" heading nor a statistics line; when some
\* row has one, the section is there with its three lines.
Cex_C11_NoSummaryWithoutOverhead ==
    Written =>
      IF RowOverheads = <<>>
      THEN ~md.summary_heading /\ md.summary = <<>>
      ELSE md.summary_heading /\ Len(md.summary) = 3

\* the position of a name in ascending order
Rank(name) == CHOOSE k \in 1..Len(NameOrder) : NameOrder[k] = name

\* C12 (as claimed): the markdown has a row for (dataset d, method m) exactly
\* when some native or sandboxed record has dataset d and method m, each such
\* pair once, the methods ascending and the datasets ascending within a
\* method; a dataset only run with other methods has no row in m's table.
Cex_C12_RowIffPairObserved ==
    Written =>
      LET all == cli_results \o wasm_results
          names == {NameOrder[k] : k \in 1..Len(NameOrder)}
      IN  /\ \A d \in names, m \in names :
                (\E j \in RowIdx : md.rows[j].dataset = d /\ md.rows[j].method = m)
                  <=> (\E k \in 1..Len(all) : all[k].dataset = d /\ all[k].method = m)
          /\ \A j, k \in RowIdx :
                j < k =>
                  \/ Rank(md.rows[j].method) < Rank(md.rows[k].method)
                  \/ /\ md.rows[j].method = md.rows[k].method
                     /\ Rank(md.rows[j].dataset) < Rank(md.rows[k].dataset)

Reorderings(s) ==
    LET n == Len(s)
        bijections == {f \in [1..n -> 1..n] : \A a, b \in 1..n : f[a] = f[b] => a = b}
    IN  {[k \in 1..n |-> s[f[k]]] : f \in bijections}

\* C8 (as claimed): no permutation of the discovery order of the native or of
\* the sandboxed records changes the markdown tables and summary or the CSV.
Cex_C8_OrderIndependent ==
    agg_pc = "done" =>
      \A cli \in Reorderings(cli_results), wasm \in Reorderings(wasm_results) :
        /\ Markdown(cli, wasm) = md
        /\ Csv(cli, wasm) = csv

AllCoreSpellings == {JsonInt("0"), JsonStr("0"), JsonStr("all")}

\* C6 (as claimed): spelling the parallelism of a native record with a mean
\* as "all", as 0 or as "0" gives the same CPU=all column in every row, and
\* the record is never read as the CPU=1 baseline.
Cex_C6_AllIsZero ==
    Written =>
      \A k \in 1..Len(cli_results) :
        (cli_results[k].cpu \in AllCoreSpellings /\ Truthy(cli_results[k].mean)) =>
          \A spelling \in AllCoreSpellings :
            LET respelt == [cli_results EXCEPT ![k].cpu = spelling]
                without == [j \in 1..(Len(cli_results) - 1) |->
                              IF j < k THEN cli_results[j] ELSE cli_results[j + 1]]
            IN  \A j \in RowIdx :
                  /\ Rows(respelt, wasm_results)[j].cpu_all_str = md.rows[j].cpu_all_str
                  /\ Rows(respelt, wasm_results)[j].cpu1_str = md.rows[j].cpu1_str
                  /\ md.rows[j].cpu1_str
                       = Row(md.rows[j].dataset, md.rows[j].method, without,
                             wasm_results).cpu1_str

-----------------------------------------------------------------------------
(* Properties of load_results *)

ParsedOf(files) ==
    LET ok(f) == f.parses
        kept == SelectSeq(files, ok)
    IN  [k \in 1..Len(kept) |-> kept[k].content]

\* C7: load_results never raises and returns exactly the records of the items
\* that parse, wherever the corrupt items are in the discovery order; each
\* corrupt item gets one warning; a directory that does not exist gives the
\* empty list.
Thm_C7_LoadSkipsCorrupt ==
    /\ load_pc \in {"start", "loop", "returned"}
    /\ load_pc = "loop" => results = ParsedOf(SubSeq(json_files, 1, load_i - 1))
    /\ load_pc = "returned" =>
         /\ results = ParsedOf(json_files)
         /\ Len(results) + Len(warnings) = Len(json_files)
         /\ \A k \in 1..Len(json_files) :
               ~json_files[k].parses <=> \E w \in 1..Len(warnings) : warnings[w] = k
         /\ ~input_dir_exists => results = <<>> /\ warnings = <<>>

Wit_C7_CorruptFirst ==
    /\ load_pc = "returned"
    /\ Len(json_files) = 3
    /\ ~json_files[1].parses /\ json_files[2].parses /\ json_files[3].parses
    /\ results = <<json_files[2].content, json_files[3].content>>

-----------------------------------------------------------------------------
(* Properties of the runners *)

Finished == pc \in {"write", "done"}

SuccessIdx == {k \in 1..Len(iterations) : iterations[k].success}

\* C1: in both runners the iterations are attempted strictly one after another
\* (at most one in flight, started in the order 1, 2, ...; the next starts only
\* after the previous was recorded), a failed iteration does not end the loop,
\* and the run ends with exactly N entries whose indices are 1..N in order.
Thm_C1_AllIterationsInOrder ==
    /\ Cardinality(running) <= 1
    /\ \A k \in 1..Len(attempts) : attempts[k].index = k
    /\ Len(attempts) = Len(iterations) + Cardinality(running)
    /\ \A k \in 1..Len(iterations) : iterations[k].iteration = k
    /\ Len(iterations) <= iterations_arg
    /\ Finished => /\ Len(iterations) = iterations_arg
                   /\ Len(attempts) = iterations_arg
    /\ pc = "done" => /\ Len(output) = 1
                      /\ Len(output[1].iterations) = iterations_arg
                      /\ \A k \in 1..iterations_arg : output[1].iterations[k].iteration = k

Wit_C1_FailureThenMore ==
    /\ runner = "native" /\ pc = "done"
    /\ iterations_arg = 3
    /\ ~iterations[1].success
    /\ iterations[3].success

\* C2: the summary never mixes a numeric mean with n = 0.  Without a success it
\* is n = 0, mean None and the reason string (line 144 / 191 spell it
\* "All iterations failed"), and the record is still written; with a success it
\* is n >= 1, a numeric mean and no reason.
Thm_C2_NoMeanWithoutSamples ==
    /\ Finished =>
         /\ (SuccessIdx = {}) <=> (stats.n = 0)
         /\ stats.n = 0 => /\ IsNone(stats.mean)
                           /\ "error" \in DOMAIN stats
                           /\ stats.error = "All iterations failed"
         /\ stats.n # 0 => /\ stats.n >= 1
                           /\ ~IsNone(stats.mean)
                           /\ stats.mean.den > 0
                           /\ "error" \notin DOMAIN stats
    /\ pc = "write" => ENABLED (IF runner = "native" THEN NativeWrite ELSE WasmWrite)
    /\ pc = "done" => /\ Len(output) = 1
                      /\ output[1].statistics = stats

Wit_C2_AllFailed ==
    /\ pc = "done"
    /\ iterations_arg = 3
    /\ SuccessIdx = {}
    /\ Len(output) = 1
    /\ output[1].statistics.n = 0

SumIdx(K) ==
    LET RECURSIVE S(_)
        S(J) == IF J = {} THEN 0
                ELSE LET k == CHOOSE x \in J : TRUE
                     IN  iterations[k].runtimeMs + S(J \ {k})
    IN  S(K)

\* m is the median of the times at the indices K
IsMedianOf(m, K) ==
    LET n == Cardinality(K)
        t(k) == iterations[k].runtimeMs
    IN  IF n % 2 = 1
        THEN \E a \in K :
               /\ RatEq(m, Rat(t(a), 1))
               /\ 2 * Cardinality({k \in K : t(k) < t(a)}) < n
               /\ 2 * Cardinality({k \in K : t(k) > t(a)}) < n
        ELSE \E a, b \in K :
               /\ a # b /\ t(a) <= t(b)
               /\ RatEq(m, Rat(t(a) + t(b), 2))
               /\ 2 * (Cardinality({k \in K \ {a, b} : t(k) <= t(a)}) + 1) >= n
               /\ 2 * (Cardinality({k \in K \ {a, b} : t(k) >= t(b)}) + 1) >= n

\* the iteration list with every failed iteration's elapsed time replaced by v
WithFailedTime(its, v) ==
    [k \in 1..Len(its) |->
        IF its[k].success THEN its[k] ELSE [its[k] EXCEPT !.runtimeMs = v]]

\* C3: with at least one success, n is the number of successes and min, max,
\* median and mean (mean * n = sum) are those of the successful times only; the
\* time recorded for a failed iteration changes no field.  100, 110, 105 give
\* n = 3, mean 105, min 100, max 110, median 105.
Thm_C3_StatsOverSuccessesOnly ==
    (Finished /\ SuccessIdx # {}) =>
        /\ stats.n = Cardinality(SuccessIdx)
        /\ stats.mean.num * stats.n = SumIdx(SuccessIdx) * stats.mean.den
        /\ \E k \in SuccessIdx : iterations[k].runtimeMs = stats.min
        /\ \A k \in SuccessIdx : iterations[k].runtimeMs >= stats.min
        /\ \E k \in SuccessIdx : iterations[k].runtimeMs = stats.max
        /\ \A k \in SuccessIdx : iterations[k].runtimeMs <= stats.max
        /\ IsMedianOf(stats.median, SuccessIdx)
        /\ \A v \in ElapsedMs \cup {0, 1000} :
               Statistics(WithFailedTime(iterations, v)) = stats
        /\ ([k \in 1..Len(iterations) |-> iterations[k].runtimeMs] = <<100, 110, 105>>
              /\ SuccessIdx = {1, 2, 3})
             => /\ stats.n = 3
                /\ RatEq(stats.mean, Rat(105, 1))
                /\ stats.min = 100
                /\ stats.max = 110
                /\ RatEq(stats.median, Rat(105, 1))

Wit_C3_FailedTimeIgnored ==
    /\ runner = "native" /\ pc = "done"
    /\ iterations_arg = 3
    /\ [k \in 1..3 |-> iterations[k].runtimeMs] = <<100, 110, 105>>
    /\ SuccessIdx = {2, 3}
    /\ output[1].statistics.min = 105

\* C9: in the sandboxed driver no iteration is attempted before readiness was
\* signalled, every iteration uses the one instance created at the start, and
\* a readiness timeout ends the run with no iteration, no retry and no file.
Thm_C9_ReadyBeforeIterations ==
    runner = "wasm" =>
        /\ attempts # <<>> => benchmarkReady
        /\ instances <= 1
        /\ \A k \in 1..Len(attempts) : attempts[k].instance = 1
        /\ raised = "TimeoutError" =>
             /\ pc = "crashed"
             /\ attempts = <<>> /\ iterations = <<>>
             /\ output = <<>>
             /\ instances = 1
             /\ ~ENABLED (WasmLaunch \/ WaitReady \/ WasmIterStart \/ WasmStatistics
                            \/ WasmWrite)

Wit_C9_Timeout ==
    /\ runner = "wasm" /\ raised = "TimeoutError"
    /\ iterations_arg = 3
    /\ output = <<>>

====
